---- MODULE Spec2Model ----
(***************************************************************************)
(* A model of the research orchestration in deep_research_plugin.py and    *)
(* of the risk assessment flow and chat wrappers in risk_agent.py.         *)
(*                                                                         *)
(* A Python str is a sequence of atoms; an atom is one character or one    *)
(* literal piece of an f-string.  The characters the code inspects         *)
(* (whitespace, digits, '-', the bullet, '.') are atoms of their own.      *)
(* A value that may be None is a record [t, v]: Str(s) or None.            *)
(***************************************************************************)
EXTENDS Integers, Sequences, FiniteSets, TLC

\* ---------------------------------------------------------------- bounds
\* how far outside [1,10] and [1,5] the breadth and depth arguments range
ArgMargin == 1
\* a direct deep_research run issues at most this many aspect requests
MaxRunRequests == 12
\* completion requests that fail (raise or carry no content) in one direct
\* invocation of a plugin method
MaxFaults == 2
\* completion requests that fail in one chat invocation
MaxChatFaults == 1
\* lines of a model response to the outline request
MaxLines == 3
\* tool calls carried by one chat response
MaxToolCalls == 2

\* ------------------------------------------------------ program constants
MIN_BREADTH == 1
MAX_BREADTH == 10
MIN_DEPTH == 1
MAX_DEPTH == 5
DEFAULT_BREADTH == 3
DEFAULT_DEPTH == 2
QUICK_BREADTH == 2
QUICK_DEPTH == 1

\* ---------------------------------------------------------------- values
Str(s) == [t |-> "str", v |-> s]
None == [t |-> "None", v |-> <<>>]
IsStr(x) == x.t = "str"

\* f"{x}" of a value that may be None
Fmt(x) == IF IsStr(x) THEN x.v ELSE <<"None">>

Bullet == "(bullet)"
Whitespace == {" ", "\n"}
Digits == {"0", "1", "2", "3", "4", "5", "6", "7", "8", "9"}

Range(s) == {s[i] : i \in 1..Len(s)}
SetMin(S) == CHOOSE x \in S : \A y \in S : x <= y
SetMax(S) == CHOOSE x \in S : \A y \in S : x >= y

\* str.strip()
Strip(s) ==
  LET keep == {i \in 1..Len(s) : s[i] \notin Whitespace}
  IN IF keep = {} THEN <<>> ELSE SubSeq(s, SetMin(keep), SetMax(keep))

\* str.lstrip(chars)
LStrip(s, chars) ==
  LET keep == {i \in 1..Len(s) : s[i] \notin chars}
  IN IF keep = {} THEN <<>> ELSE SubSeq(s, SetMin(keep), Len(s))

\* str.split(sep): the pieces between the occurrences of sep
RECURSIVE Split(_, _)
Split(s, sep) ==
  LET at == {i \in 1..Len(s) : s[i] = sep}
  IN IF at = {} THEN <<s>>
     ELSE <<SubSeq(s, 1, SetMin(at) - 1)>>
          \o Split(SubSeq(s, SetMin(at) + 1, Len(s)), sep)

\* s.split(sep, 1)[-1]: what follows the first sep, or s when it has none
AfterFirst(s, sep) ==
  LET at == {i \in 1..Len(s) : s[i] = sep}
  IN IF at = {} THEN s ELSE SubSeq(s, SetMin(at) + 1, Len(s))

\* seq[lo:hi] for integers 0 <= lo, hi
Slice(seq, lo, hi) ==
  SubSeq(seq, lo + 1, IF hi < Len(seq) THEN hi ELSE Len(seq))

\* sep.join(parts)
RECURSIVE Join(_, _)
Join(parts, sep) ==
  IF parts = <<>> THEN <<>>
  ELSE IF Len(parts) = 1 THEN parts[1]
  ELSE parts[1] \o <<sep>> \o Join(Tail(parts), sep)

\* the parts one after another
RECURSIVE Concat(_)
Concat(parts) ==
  IF parts = <<>> THEN <<>> ELSE parts[1] \o Concat(Tail(parts))

\* ------------------------------------------------------------ exceptions
ConnectionError == <<"Connection error.">>
NoStripError == <<"'NoneType' object has no attribute 'strip'">>
CompareError(x) ==
  IF x.k = "str" THEN <<"'<' not supported between instances of 'str' and 'int'">>
  ELSE <<"'<' not supported between instances of 'NoneType' and 'int'">>
SliceError == <<"slice indices must be integers or None or have an __index__ method">>
RangeError == <<"'float' object cannot be interpreted as an integer">>

Ok(v) == [ok |-> TRUE, val |-> v]
Raise(msg) == [ok |-> FALSE, val |-> msg]

\* ------------------------------------------------- numbers as arguments
\* An argument is an int, a float (n halves), a str or None.
IntArg(n) == [k |-> "int", n |-> n]
FloatArg(h) == [k |-> "float", n |-> h]
StrArg == [k |-> "str", n |-> 0]
NoneArg == [k |-> "None", n |-> 0]
NotANumber == {StrArg, NoneArg}
IsInt(x) == x.k = "int"

\* x < y for two numbers
Less(x, y) ==
  (IF x.k = "int" THEN 2 * x.n ELSE x.n) < (IF y.k = "int" THEN 2 * y.n ELSE y.n)

\* min(hi, x) alone: the lower bound forgotten
ClampNoLowerBound(lo, hi, x) ==
  IF x \in NotANumber THEN Raise(CompareError(x))
  ELSE Ok(IF Less(x, IntArg(hi)) THEN x ELSE IntArg(hi))

\* max(lo, min(hi, x)): min and max keep their first argument unless the
\* second is strictly smaller (larger); comparing a str or None raises
Clamp(lo, hi, x) ==
  IF x \in NotANumber THEN Raise(CompareError(x))
  ELSE LET m == IF Less(x, IntArg(hi)) THEN x ELSE IntArg(hi)
       IN Ok(IF Less(IntArg(lo), m) THEN m ELSE IntArg(lo))

\* --------------------------------------------------- completion responses
\* A completion request raises, or returns a message with a content (a str
\* or None) and the tool calls it requests (none: the empty sequence).
Message(content, tool_calls) == [content |-> content, tool_calls |-> tool_calls]

\* what a frame holds for a response that has not arrived
NoResponse == [ok |-> FALSE, val |-> <<"no response">>]

\* ------------------------------------------------------ outline generator
\* lines 140-151 and 159-170: the ten generic aspects of a query
generic_aspects(query) ==
  << <<"Current state and overview of ">> \o Fmt(query),
     <<"Recent developments and trends in ">> \o Fmt(query),
     <<"Key challenges and opportunities in ">> \o Fmt(query),
     <<"Future implications and predictions for ">> \o Fmt(query),
     <<"Expert opinions and analysis on ">> \o Fmt(query),
     <<"Technical aspects and specifications of ">> \o Fmt(query),
     <<"Economic and market impact of ">> \o Fmt(query),
     <<"Social and cultural effects of ">> \o Fmt(query),
     <<"Regulatory and legal considerations for ">> \o Fmt(query),
     <<"Comparative analysis and alternatives to ">> \o Fmt(query) >>

\* the test of the first character left out: every line is an item
LineAspectAnyLine(raw) ==
  LET line == Strip(raw)
  IN IF "." \in Range(line)
     THEN Strip(AfterFirst(line, "."))
     ELSE Strip(LStrip(line, {"-", Bullet}))

\* lines 130-133: the aspect a response line contributes, <<>> when none
LineAspect(raw) ==
  LET line == Strip(raw)
  IN IF line # <<>> /\ (line[1] \in Digits \/ line[1] = "-" \/ line[1] = Bullet)
     THEN IF "." \in Range(line)
          THEN Strip(AfterFirst(line, "."))
          ELSE Strip(LStrip(line, {"-", Bullet}))
     ELSE <<>>

\* lines 127-135: the aspects parsed from the response text
ParseAspects(outline_content) ==
  LET lines == Split(Strip(outline_content), "\n")
      each == [i \in 1..Len(lines) |-> LineAspect(lines[i])]
  IN SelectSeq(each, LAMBDA a : a # <<>>)

\* line 152 without the offset: pads from the head of the generic list
PadFromHead(aspects, query, breadth) ==
  aspects \o Slice(generic_aspects(query), 0, breadth - Len(aspects))

\* lines 138-152: pad a short list from the generic aspects
Pad(aspects, query, breadth) ==
  IF Len(aspects) < breadth
  THEN aspects \o Slice(generic_aspects(query), Len(aspects), breadth)
  ELSE aspects

\* line 154 and 171 without the truncation
NoTruncate(aspects, breadth) == aspects

\* lines 154 and 171: aspects[:breadth]
Truncate(aspects, breadth) == Slice(aspects, 0, breadth)

\* lines 91-171: the outline for a response to the outline request; a
\* breadth that is no int makes every slice raise, the handler's too
_generate_research_outline(query, breadth, response) ==
  IF ~IsInt(breadth) THEN Raise(SliceError)
  ELSE IF ~response.ok \/ ~IsStr(response.val.content)
       THEN Ok(Truncate(generic_aspects(query), breadth.n))
       ELSE Ok(Truncate(Pad(ParseAspects(response.val.content.v), query, breadth.n),
                        breadth.n))

\* -------------------------------------------------------- aspect research
ResearchErrorMarker == "[X] Error occurred during research: "
ResearchHint == <<"Please check your Azure OpenAI configuration and try again.">>

\* lines 227 and 237
FindingHeader(aspect, iteration) ==
  <<"Research iteration ", ToString(iteration), " for ">> \o aspect \o <<":">>

\* the handler that returns the header and the error line without the hint
ResearchAspectWithoutHint(aspect, iteration, response) ==
  IF response.ok /\ IsStr(response.val.content)
  THEN << FindingHeader(aspect, iteration), Strip(response.val.content.v) >>
  ELSE << FindingHeader(aspect, iteration),
          <<ResearchErrorMarker>>
            \o (IF response.ok THEN NoStripError ELSE response.val) >>

\* lines 192-240: the finding lines for a response to an aspect request;
\* content None makes research_content.strip() raise inside the try
_research_aspect(aspect, iteration, response) ==
  IF response.ok /\ IsStr(response.val.content)
  THEN << FindingHeader(aspect, iteration), Strip(response.val.content.v) >>
  ELSE << FindingHeader(aspect, iteration),
          <<ResearchErrorMarker>>
            \o (IF response.ok THEN NoStripError ELSE response.val),
          ResearchHint >>

\* --------------------------------------------------------- result mapping
\* A dict: its keys in insertion order and the value of each key.
EmptyDict == [keys |-> <<>>, vals |-> [k \in {} |-> <<>>]]

\* d[k] = [] that never replaces a list the mapping already holds
DictInitKeep(d, k) ==
  IF k \in Range(d.keys) THEN d
  ELSE [keys |-> Append(d.keys, k),
        vals |-> [x \in Range(d.keys) \cup {k} |->
                    IF x = k THEN <<>> ELSE d.vals[x]]]

\* line 179: research_results[aspect] = []; a key already present keeps
\* its place and has its value replaced
DictInit(d, k) ==
  [keys |-> IF k \in Range(d.keys) THEN d.keys ELSE Append(d.keys, k),
   vals |-> [x \in Range(d.keys) \cup {k} |->
               IF x = k THEN <<>> ELSE d.vals[x]]]

\* line 185: research_results[aspect].extend(findings)
DictExtend(d, k, findings) ==
  [d EXCEPT !.vals[k] = @ \o findings]

\* ----------------------------------------------------------- final report
current_date == "YYYY-MM-DD"

\* the sections numbered from 0, as enumerate without its start would
RECURSIVE ReportSectionsFromZero(_, _)
ReportSectionsFromZero(research_results, i) ==
  IF i > Len(research_results.keys) THEN <<>>
  ELSE LET aspect == research_results.keys[i]
           findings == research_results.vals[aspect]
           body == [j \in 1..Len(findings) |-> findings[j] \o <<"\n\n">>]
       IN <<"### ", ToString(i - 1), ". ">> \o aspect \o <<"\n\n">>
          \o Concat(body) \o <<"---\n\n">>
          \o ReportSectionsFromZero(research_results, i + 1)

\* lines 269-275: the sections of the aspects from position i on
RECURSIVE ReportSections(_, _)
ReportSections(research_results, i) ==
  IF i > Len(research_results.keys) THEN <<>>
  ELSE LET aspect == research_results.keys[i]
           findings == research_results.vals[aspect]
           body == [j \in 1..Len(findings) |-> findings[j] \o <<"\n\n">>]
       IN <<"### ", ToString(i), ". ">> \o aspect \o <<"\n\n">>
          \o Concat(body) \o <<"---\n\n">>
          \o ReportSections(research_results, i + 1)

\* lines 242-290
_generate_final_report(query, research_results, breadth, depth) ==
  <<"# Deep Research Report: ">> \o Fmt(query)
  \o <<"\n\n**Research Date:** ", current_date,
       "  \n**Research Scope:** ", ToString(breadth), " aspects explored with ",
       ToString(depth), " iterations each  \n**Total Research Points:** ",
       ToString(Len(research_results.keys) * depth),
       "\n\n## Executive Summary\n\n", "## Research Methodology\n\n",
       "## Detailed Findings\n\n">>
  \o ReportSections(research_results, 1)
  \o <<"## Sources and Methodology Notes\n\n", "- Findings synthesized from ",
       ToString(Len(research_results.keys)), " research areas\n",
       "- Each area investigated through ", ToString(depth),
       " iterative research cycles\n", "- Report generated on ", current_date,
       "\n\n---\n\n", "*This report was generated using the Deep Research Plugin*\n">>

\* ------------------------------------------------------------------ state
VARIABLES
  entry,    \* the entry point the caller invoked
  plugin,   \* the frame of the DeepResearchPlugin call in progress
  peer,     \* the frame of a second call in progress on the same plugin
  risk,     \* the frame of the RiskAssessmentPlugin call in progress
  agent,    \* the frame of the chat call in progress
  faults    \* completion requests that have failed so far

vars == <<entry, plugin, peer, risk, agent, faults>>

\* what a frame holds before its call returns
Pending == [t |-> "pending", v |-> <<>>]
\* an exception that leaves the call
Raised(msg) == [t |-> "raised", v |-> msg]

\* ------------------------------------------------- completion environment
OutlineLines ==
  { <<"1", ".", " ", "Foo">>, <<" ", "2", ".", "Foo", " ">>, <<"2", ".", " ", "Bar">>,
    <<"-", " ", "Bar">>, <<Bullet, "-", "Baz">>, <<"-", " ", "v1", ".", "2">>,
    <<"Foo">>, <<>>, <<"3", ".">>, <<"-">> }

\* the response texts of up to MaxLines lines
OutlineTexts ==
  UNION { { Join(ls, "\n") : ls \in [1..n -> OutlineLines] } : n \in 1..MaxLines }

\* the response texts a whole run is checked with: one names an aspect
\* twice, one has three aspects, one has a single aspect
RunOutlineTexts ==
  { <<"1", ".", " ", "Foo", "\n", "2", ".", " ", "Foo">>,
    <<"1", ".", " ", "Foo", "\n", "-", " ", "Bar", "\n", Bullet, "Baz", "\n">>,
    <<"-", " ", "v1", ".", "2">> }

ResearchTexts == { <<" ", "findings", "\n">> }

\* a response that counts against MaxFaults
IsFault(response) == ~response.ok \/ ~IsStr(response.val.content)

\* the responses to a request whose answer is a text
TextResponses(texts) ==
  { Ok(Message(Str(t), <<>>)) : t \in texts }
    \cup { Ok(Message(None, <<>>)), Raise(ConnectionError) }

ChatEntries == { "DeepResearchAgent.chat", "RiskAssessmentAgent.chat" }

FaultLimit == IF entry \in ChatEntries THEN MaxChatFaults ELSE MaxFaults

\* the outline response texts of a call made from chat
ChatOutlineTexts ==
  { <<"1", ".", " ", "Foo", "\n", "-", " ", "Bar", "\n", Bullet, "Baz", "\n">> }

Admit(response) ==
  /\ IsFault(response) => faults < FaultLimit
  /\ faults' = IF IsFault(response) THEN faults + 1 ELSE faults

\* ------------------------------------------------------------ deep_research
IdlePlugin ==
  [pc |-> "idle", query |-> None, breadth_arg |-> NoneArg, depth_arg |-> NoneArg,
   breadth |-> NoneArg, depth |-> NoneArg, outline_content |-> Pending,
   research_outline |-> <<>>,
   research_results |-> EmptyDict, aspect |-> 0, iteration |-> 0,
   outline_requests |-> 0, aspect_requests |-> <<>>, responses |-> <<>>,
   findings |-> <<>>, ret |-> Pending]

\* line 43: a call of deep_research
deep_research(query, breadth, depth) ==
  [IdlePlugin EXCEPT !.pc = "deep_research", !.query = query,
                     !.breadth_arg = breadth, !.depth_arg = depth]

\* line 89
quick_research(query) ==
  deep_research(query, IntArg(QUICK_BREADTH), IntArg(QUICK_DEPTH))

DeepResearchMarker == "[X] Deep research failed: "

\* the handler left out: the exception leaves deep_research
DeepResearchReraise(f, msg) ==
  [f EXCEPT !.pc = "done", !.ret = Raised(msg)]

\* lines 75-77
DeepResearchExcept(f, msg) ==
  [f EXCEPT !.pc = "done", !.ret = Str(<<DeepResearchMarker>> \o msg)]

\* lines 55-63: clamp breadth, then depth, then ask for the outline
ValidateStep(f) ==
  LET b == Clamp(MIN_BREADTH, MAX_BREADTH, f.breadth_arg)
      d == Clamp(MIN_DEPTH, MAX_DEPTH, f.depth_arg)
  IN IF ~b.ok THEN DeepResearchExcept(f, b.val)
     ELSE IF ~d.ok THEN DeepResearchExcept(f, d.val)
     ELSE [f EXCEPT !.pc = "_generate_research_outline",
                    !.breadth = b.val, !.depth = d.val]

\* lines 55-63 in the frame of the call in progress
ValidateParameters ==
  /\ plugin.pc = "deep_research"
  /\ plugin' = ValidateStep(plugin)
  /\ UNCHANGED <<entry, risk, agent, faults, peer>>

\* the loop that skips the aspect after the one just finished
AdvanceSkipping(f) ==
  IF f.iteration < f.depth.n
  THEN [f EXCEPT !.iteration = @ + 1]
  ELSE IF f.aspect + 1 < Len(f.research_outline)
  THEN [f EXCEPT !.aspect = @ + 2, !.iteration = 1,
                 !.research_results =
                    DictInit(@, f.research_outline[f.aspect + 2])]
  ELSE [f EXCEPT !.pc = "_generate_final_report"]

\* the loops nested the other way round: every aspect is researched for
\* iteration 1, then every aspect for iteration 2, and so on
AdvanceIterationOuter(f) ==
  IF f.aspect < Len(f.research_outline)
  THEN [f EXCEPT !.aspect = @ + 1,
                 !.research_results =
                    IF f.iteration = 1
                    THEN DictInit(@, f.research_outline[f.aspect + 1]) ELSE @]
  ELSE IF f.iteration < f.depth.n
  THEN [f EXCEPT !.aspect = 1, !.iteration = @ + 1]
  ELSE [f EXCEPT !.pc = "_generate_final_report"]

\* lines 178-182 and 190: the next iteration, the next aspect with its
\* list emptied, or the return of the mapping
Advance(f) ==
  IF f.iteration < f.depth.n
  THEN [f EXCEPT !.iteration = @ + 1]
  ELSE IF f.aspect < Len(f.research_outline)
  THEN [f EXCEPT !.aspect = @ + 1, !.iteration = 1,
                 !.research_results =
                    DictInit(@, f.research_outline[f.aspect + 1])]
  ELSE [f EXCEPT !.pc = "_generate_final_report"]

\* lines 176-182: the mapping is created, the first aspect gets its list and
\* range(depth) is evaluated, which raises for a depth that is no int
PerformIterativeResearch(f, outline) ==
  IF outline = <<>>
  THEN [f EXCEPT !.research_outline = outline, !.pc = "_generate_final_report"]
  ELSE IF ~IsInt(f.depth)
  THEN DeepResearchExcept(
         [f EXCEPT !.research_outline = outline,
                   !.research_results = DictInit(EmptyDict, outline[1])],
         RangeError)
  ELSE [f EXCEPT !.research_outline = outline,
                 !.research_results = DictInit(EmptyDict, outline[1]),
                 !.aspect = 1, !.iteration = 1, !.pc = "_research_aspect"]

\* lines 63-66 and 113-171: a call resumes with the response to its
\* outline request
OutlineStep(g, response) ==
  LET f == [g EXCEPT
              !.outline_requests = @ + 1,
              !.responses = Append(@, response),
              !.outline_content =
                 IF response.ok THEN response.val.content ELSE Pending]
      outline == _generate_research_outline(f.query, f.breadth, response)
  IN IF entry = "_generate_research_outline"
     THEN [f EXCEPT !.pc = "done",
                    !.research_outline = IF outline.ok THEN outline.val ELSE <<>>,
                    !.ret = IF outline.ok THEN Pending ELSE Raised(outline.val)]
     ELSE IF ~outline.ok THEN DeepResearchExcept(f, outline.val)
     ELSE PerformIterativeResearch(f, outline.val)

\* lines 63-66 and 113-171: the outline request and its response
GenerateResearchOutline ==
  /\ plugin.pc = "_generate_research_outline"
  /\ \E response \in TextResponses(IF entry = "_generate_research_outline"
                                   THEN OutlineTexts
                                   ELSE IF entry \in ChatEntries
                                   THEN ChatOutlineTexts ELSE RunOutlineTexts) :
       /\ Admit(response)
       /\ plugin' = OutlineStep(plugin, response)
  /\ UNCHANGED <<entry, risk, agent, peer>>

\* lines 184-185 and 212-240: a call resumes with the response to an
\* aspect request
AspectStep(f, response) ==
  LET aspect == f.research_outline[f.aspect]
      findings == _research_aspect(aspect, f.iteration, response)
  IN Advance([f EXCEPT
       !.aspect_requests = Append(@, <<f.aspect, f.iteration>>),
       !.responses = Append(@, response),
       !.findings = findings,
       !.research_results = DictExtend(@, aspect, findings)])

\* lines 184-185 and 212-240: one aspect request and its response
ResearchAspect ==
  /\ plugin.pc = "_research_aspect"
  /\ \E response \in TextResponses(ResearchTexts) :
       /\ Admit(response)
       /\ plugin' = AspectStep(plugin, response)
  /\ UNCHANGED <<entry, risk, agent, peer>>

\* lines 69-73: the report is rendered and returned
ReportStep(f) ==
  [f EXCEPT
     !.pc = "done",
     !.ret = Str(_generate_final_report(f.query, f.research_results,
                                        f.breadth.n, f.depth.n))]

\* lines 69-73 in the frame of the call in progress
GenerateFinalReport ==
  /\ plugin.pc = "_generate_final_report"
  /\ plugin' = ReportStep(plugin)
  /\ UNCHANGED <<entry, risk, agent, faults, peer>>

\* ------------------------------------------------------------ assess_risks
IdleRisk ==
  [pc |-> "idle", research_data |-> None, location |-> None,
   risk_categories |-> None, requests |-> <<>>, response |-> NoResponse,
   ret |-> Pending]

\* line 40: a call of assess_risks
assess_risks(research_data, location, risk_categories) ==
  [IdleRisk EXCEPT !.pc = "assess_risks", !.research_data = research_data,
                   !.location = location, !.risk_categories = risk_categories]

RiskErrorMarker == "[X] Error during risk assessment: "
RiskHint == "\nPlease check your Azure OpenAI configuration."

\* lines 76-83: the user prompt; an empty risk_categories is falsy
RiskPrompt(research_data, location, risk_categories) ==
  <<"Please perform a comprehensive risk assessment for: ">> \o Fmt(location)
  \o <<"\n\nBased on this research data:\n">> \o Fmt(research_data)
  \o <<"\n\nFocus on: ">>
  \o (IF IsStr(risk_categories) /\ risk_categories.v # <<>>
      THEN risk_categories.v ELSE <<"all risk categories">>)
  \o <<"\n\nProvide a detailed risk analysis.">>

\* the text returned as the model sent it
RiskResultUntrimmed(response) ==
  IF response.ok /\ IsStr(response.val.content)
  THEN Str(response.val.content.v)
  ELSE Str(<<RiskErrorMarker>>
           \o (IF response.ok THEN NoStripError ELSE response.val)
           \o <<RiskHint>>)

\* lines 97-105: the value returned for a response; content None makes
\* assessment_content.strip() raise inside the try
RiskResult(response) ==
  IF response.ok /\ IsStr(response.val.content)
  THEN Str(Strip(response.val.content.v))
  ELSE Str(<<RiskErrorMarker>>
           \o (IF response.ok THEN NoStripError ELSE response.val)
           \o <<RiskHint>>)

RiskTexts == { <<"\n", "assessment", " ">>, <<"assessment">>, <<" ">> }

\* lines 52-105: the one completion request and its response
AssessRisks ==
  /\ risk.pc = "assess_risks"
  /\ \E response \in TextResponses(RiskTexts) :
       /\ Admit(response)
       /\ risk' = [risk EXCEPT
            !.pc = "done",
            !.requests = Append(@, RiskPrompt(risk.research_data, risk.location,
                                              risk.risk_categories)),
            !.response = response,
            !.ret = RiskResult(response)]
  /\ UNCHANGED <<entry, plugin, agent, peer>>

\* ---------------------------------------------------------- tool arguments
\* A JSON text is one atom.  json.loads of it is a dict (a function from
\* keys to values), a list, or raises.
JsonDict(fields) == Ok([kind |-> "dict", fields |-> fields])
JsonList == Ok([kind |-> "list", fields |-> <<>>])
JSONDecodeError == <<"Expecting property name enclosed in double quotes">>
NoGetError == <<"'list' object has no attribute 'get'">>

\* json.loads
json_loads(text) ==
  CASE text = "{}" -> JsonDict([k \in {} |-> None])
    [] text = "{\"query\": \"X\"}" -> JsonDict([query |-> Str(<<"X">>)])
    [] text = "{\"query\": \"X\", \"breadth\": 1, \"depth\": 1}" ->
         JsonDict([query |-> Str(<<"X">>), breadth |-> IntArg(1), depth |-> IntArg(1)])
    [] text = "{\"query\": \"X\", \"breadth\": \"two\"}" ->
         JsonDict([query |-> Str(<<"X">>), breadth |-> StrArg])
    [] text = "{\"research_data\": \"D\"}" ->
         JsonDict([research_data |-> Str(<<"D">>)])
    [] text = "{\"research_data\": \"D\", \"location\": \"L\", \"risk_categories\": \"R\"}" ->
         JsonDict([research_data |-> Str(<<"D">>), location |-> Str(<<"L">>),
                   risk_categories |-> Str(<<"R">>)])
    [] text = "[1]" -> JsonList
    [] OTHER -> Raise(JSONDecodeError)

\* dict.get(key, default)
Get(fields, key, default) ==
  IF key \in DOMAIN fields THEN fields[key] ELSE default

\* ------------------------------------------------------------------- chat
ToolCall(id, name, arguments) == [id |-> id, name |-> name, arguments |-> arguments]

ChatMessage(role, content, tool_call_id, tool_calls) ==
  [role |-> role, content |-> content, tool_call_id |-> tool_call_id,
   tool_calls |-> tool_calls]

IdleAgent ==
  [pc |-> "idle", messages |-> <<>>, tool_calls |-> <<>>, index |-> 0,
   requests |-> <<>>, invoked |-> <<>>, response |-> NoResponse,
   final_response |-> NoResponse, ret |-> Pending]

\* lines 391-394 (183-186): a call of chat
chat(message) ==
  [IdleAgent EXCEPT
     !.pc = "chat",
     !.messages = << ChatMessage("system", Str(<<"system_message">>), 0, <<>>),
                     ChatMessage("user", message, 0, <<>>) >>]

ChatMarker == "[X] Chat failed: "

\* the handler left out: the exception leaves chat
ChatReraise(f, msg) == [f EXCEPT !.pc = "done", !.ret = Raised(msg)]

\* lines 456-458 (244-246)
ChatExcept(f, msg) ==
  [f EXCEPT !.pc = "done", !.ret = Str(<<ChatMarker>> \o msg)]

\* the functions each wrapper dispatches
Dispatched ==
  IF entry = "DeepResearchAgent.chat" THEN {"deep_research", "quick_research"}
  ELSE IF entry = "RiskAssessmentAgent.chat" THEN {"assess_risks"}
  ELSE {}

\* what the model may ask for: a function name with an arguments text
ToolRequests ==
  { <<"deep_research", "{\"query\": \"X\"}">>,
    <<"deep_research", "{\"query\": \"X\", \"breadth\": 1, \"depth\": 1}">>,
    <<"deep_research", "{\"query\": \"X\", \"breadth\": \"two\"}">>,
    <<"quick_research", "{}">>,
    <<"assess_risks", "{\"research_data\": \"D\"}">>,
    <<"assess_risks",
      "{\"research_data\": \"D\", \"location\": \"L\", \"risk_categories\": \"R\"}">>,
    <<"assess_risks", "[1]">>,
    <<"lookup_weather", "{}">>,
    <<"lookup_weather", "{\"query\"">> }

\* the tool call lists of one response: ids are call 1, call 2, ...
ToolCallLists ==
  UNION { { [i \in 1..n |-> ToolCall(i, reqs[i][1], reqs[i][2])] :
              reqs \in [1..n -> ToolRequests] } : n \in 1..MaxToolCalls }

ChatAnswers == { Str(<<"answer">>), None }

\* the responses to the first request
FirstResponses ==
  { Ok(Message(c, <<>>)) : c \in ChatAnswers }
    \cup { Ok(Message(None, tcs)) : tcs \in ToolCallLists }
    \cup { Raise(ConnectionError) }

\* the responses to the final request: some ask for a further tool call
FinalResponses ==
  { Ok(Message(Str(<<"answer">>), <<>>)),
    Ok(Message(None, <<ToolCall(1, "quick_research", "{\"query\": \"X\"}")>>)),
    Raise(ConnectionError) }

ChatAdmit(response) ==
  /\ ~response.ok => faults < FaultLimit
  /\ faults' = IF response.ok THEN faults ELSE faults + 1

\* a request as the client receives it
Request(messages, tools) == [messages |-> messages, tools |-> tools]

\* lines 397-415 and 452-454 (189-207 and 240-242): the first request, with
\* the function schema, and its response
ChatFirstRequest ==
  /\ agent.pc = "chat"
  /\ \E response \in FirstResponses :
       /\ ChatAdmit(response)
       /\ LET f == [agent EXCEPT !.requests = Append(@, Request(agent.messages, TRUE)),
                                 !.response = response]
          IN agent' =
               IF ~response.ok THEN ChatExcept(f, response.val)
               ELSE IF response.val.tool_calls # <<>>
               THEN [f EXCEPT
                      !.pc = "dispatch",
                      !.messages = Append(@, ChatMessage("assistant", response.val.content,
                                                         0, response.val.tool_calls)),
                      !.tool_calls = response.val.tool_calls,
                      !.index = 1]
               ELSE [f EXCEPT !.pc = "done", !.ret = response.val.content]
  /\ UNCHANGED <<entry, plugin, risk, peer>>

\* the result appended under the id of the first requested call
AppendToolResultFirstId(f, content) ==
  LET g == [f EXCEPT
              !.messages = Append(@, ChatMessage("tool", content,
                                                 f.tool_calls[1].id, <<>>)),
              !.index = @ + 1]
  IN IF g.index > Len(g.tool_calls)
     THEN [g EXCEPT !.pc = "final"]
     ELSE [g EXCEPT !.pc = "dispatch"]

\* lines 437-441 (225-229): the result of the current call is appended and
\* the loop moves on; after the last call the final request is next
AppendToolResult(f, content) ==
  LET g == [f EXCEPT
              !.messages = Append(@, ChatMessage("tool", content,
                                                 f.tool_calls[f.index].id, <<>>)),
              !.index = @ + 1]
  IN IF g.index > Len(g.tool_calls)
     THEN [g EXCEPT !.pc = "final"]
     ELSE [g EXCEPT !.pc = "dispatch"]

\* an unknown name treated as an error
UnknownFunctionRaises(f, name) ==
  ChatExcept(f, <<"Unknown function: ", name>>)

\* lines 433-434 (221-222)
UnknownFunction(f, name) ==
  AppendToolResult(f, Str(<<"Unknown function: ", name>>))

\* the defaults of location and risk_categories left out
RiskArgumentsNoDefault(fields) ==
  assess_risks(Get(fields, "research_data", None),
               Get(fields, "location", None),
               Get(fields, "risk_categories", None))

\* lines 216-220 of risk_agent.py
RiskArguments(fields) ==
  assess_risks(Get(fields, "research_data", None),
               Get(fields, "location", Str(<<>>)),
               Get(fields, "risk_categories", Str(<<>>)))

\* lines 424-432 of deep_research_plugin.py
ResearchArguments(name, fields) ==
  IF name = "deep_research"
  THEN deep_research(Get(fields, "query", None),
                     Get(fields, "breadth", IntArg(DEFAULT_BREADTH)),
                     Get(fields, "depth", IntArg(DEFAULT_DEPTH)))
  ELSE quick_research(Get(fields, "query", None))

\* lines 418-434 (210-222): the arguments of the current tool call are
\* parsed, then its function is called or the placeholder is appended
ExecuteToolCall ==
  /\ agent.pc = "dispatch"
  /\ LET call == agent.tool_calls[agent.index]
         function_args == json_loads(call.arguments)
         known == call.name \in Dispatched
         fails == ~function_args.ok \/ (known /\ function_args.val.kind # "dict")
         f == [agent EXCEPT !.invoked = Append(@, call.id)]
     IN /\ agent' =
             IF ~function_args.ok THEN ChatExcept(agent, function_args.val)
             ELSE IF ~known THEN UnknownFunction(agent, call.name)
             ELSE IF function_args.val.kind # "dict" THEN ChatExcept(agent, NoGetError)
             ELSE [f EXCEPT !.pc = "await_function"]
        /\ plugin' =
             IF ~fails /\ known /\ call.name # "assess_risks"
             THEN ResearchArguments(call.name, function_args.val.fields)
             ELSE plugin
        /\ risk' =
             IF ~fails /\ known /\ call.name = "assess_risks"
             THEN RiskArguments(function_args.val.fields)
             ELSE risk
  /\ UNCHANGED <<entry, faults, peer>>

\* lines 424-441 (216-229): the called function returns and its result is
\* appended as the tool message of the current call; the frame of the call
\* stays behind as "returned" until the next call of the same plugin
FunctionReturn ==
  /\ agent.pc = "await_function"
  /\ plugin.pc = "done" \/ risk.pc = "done"
  /\ LET function_response == IF plugin.pc = "done" THEN plugin.ret ELSE risk.ret
     IN agent' = IF function_response.t = "raised"
                 THEN ChatExcept(agent, function_response.v)
                 ELSE AppendToolResult(agent, function_response)
  /\ plugin' = IF plugin.pc = "done" THEN [plugin EXCEPT !.pc = "returned"] ELSE plugin
  /\ risk' = IF risk.pc = "done" THEN [risk EXCEPT !.pc = "returned"] ELSE risk
  /\ UNCHANGED <<entry, faults, peer>>

\* the final request sent with the function schema attached
FinalRequestWithTools(messages) == Request(messages, TRUE)

\* lines 444-449 (232-237): the final request, without the schema
FinalRequest(messages) == Request(messages, FALSE)

\* lines 444-451 (232-239): the final request and its response
ChatFinalRequest ==
  /\ agent.pc = "final"
  /\ \E response \in FinalResponses :
       /\ ChatAdmit(response)
       /\ LET f == [agent EXCEPT !.requests = Append(@, FinalRequest(agent.messages)),
                                 !.final_response = response]
          IN agent' =
               IF ~response.ok THEN ChatExcept(f, response.val)
               ELSE [f EXCEPT !.pc = "done", !.ret = response.val.content]
  /\ UNCHANGED <<entry, plugin, risk, peer>>

\* ------------------------------------------------------------ specification
Queries == { Str(<<"X">>) }

BreadthArgs ==
  { IntArg(n) : n \in (MIN_BREADTH - ArgMargin)..(MAX_BREADTH + ArgMargin) }
    \cup { IntArg(15), FloatArg(5), FloatArg(30) } \cup NotANumber

DepthArgs ==
  { IntArg(n) : n \in (MIN_DEPTH - ArgMargin)..(MAX_DEPTH + ArgMargin) }
    \cup { FloatArg(3) } \cup NotANumber

\* the aspect requests a run with these arguments issues, 0 when it fails
RunLength(breadth, depth) ==
  LET b == Clamp(MIN_BREADTH, MAX_BREADTH, breadth)
      d == Clamp(MIN_DEPTH, MAX_DEPTH, depth)
  IN IF b.ok /\ d.ok /\ IsInt(b.val) /\ IsInt(d.val) THEN b.val.n * d.val.n ELSE 0

InitDeepResearch ==
  /\ entry = "deep_research"
  /\ \E query \in Queries, breadth \in BreadthArgs, depth \in DepthArgs :
       /\ RunLength(breadth, depth) <= MaxRunRequests
       /\ plugin = deep_research(query, breadth, depth)
  /\ risk = IdleRisk
  /\ agent = IdleAgent

InitQuickResearch ==
  /\ entry = "quick_research"
  /\ \E query \in Queries \cup {None} : plugin = quick_research(query)
  /\ risk = IdleRisk
  /\ agent = IdleAgent

InitOutline ==
  /\ entry = "_generate_research_outline"
  /\ \E query \in Queries, breadth \in MIN_BREADTH..MAX_BREADTH :
       plugin = [IdlePlugin EXCEPT !.pc = "_generate_research_outline",
                                   !.query = query, !.breadth = IntArg(breadth)]
  /\ risk = IdleRisk
  /\ agent = IdleAgent

InitAssessRisks ==
  /\ entry = "assess_risks"
  /\ \E research_data \in { Str(<<"D">>) },
        location \in { Str(<<>>), Str(<<"L">>) },
        risk_categories \in { Str(<<>>), Str(<<"R">>) } :
       risk = assess_risks(research_data, location, risk_categories)
  /\ plugin = IdlePlugin
  /\ agent = IdleAgent

InitChat ==
  /\ entry \in ChatEntries
  /\ agent = chat(Str(<<"message">>))
  /\ plugin = IdlePlugin
  /\ risk = IdleRisk

Init ==
  /\ faults = 0
  /\ peer = IdlePlugin
  /\ \/ InitDeepResearch
     \/ InitQuickResearch
     \/ InitOutline
     \/ InitAssessRisks
     \/ InitChat

Next ==
  \/ ValidateParameters
  \/ GenerateResearchOutline
  \/ ResearchAspect
  \/ GenerateFinalReport
  \/ AssessRisks
  \/ ChatFirstRequest
  \/ ExecuteToolCall
  \/ FunctionReturn
  \/ ChatFinalRequest

Spec == Init /\ [][Next]_vars

\* deep_research and quick_research called directly, without a chat
\* wrapper around them
InitPlugin ==
  /\ faults = 0
  /\ peer = IdlePlugin
  /\ \/ InitDeepResearch
     \/ InitQuickResearch

NextPlugin ==
  \/ ValidateParameters
  \/ GenerateResearchOutline
  \/ ResearchAspect
  \/ GenerateFinalReport

SpecPlugin == InitPlugin /\ [][NextPlugin]_vars

\* _generate_research_outline called on its own, for every breadth in
\* [1,10] and every response text
InitOutlineCall ==
  /\ faults = 0
  /\ peer = IdlePlugin
  /\ InitOutline

NextOutline == GenerateResearchOutline

SpecOutline == InitOutlineCall /\ [][NextOutline]_vars

\* the chat wrappers alone, with the plugin calls they make
InitAgent ==
  /\ faults = 0
  /\ peer = IdlePlugin
  /\ InitChat

SpecChat == InitAgent /\ [][Next]_vars

\* ------------------------------------------------------- concurrent calls
\* Two deep_research calls on one plugin instance, interleaved at their
\* completion requests.  query, breadth, depth, research_outline,
\* research_results and final_report are local variables of a call (lines
\* 57-73 and 176-190); the methods assign no attribute of self.

\* a call that resumes after an await finds the mapping of the other call:
\* research_results kept on the instance instead of in a local variable
ResumeSharedResults(f, other) ==
  IF f.pc = "_generate_final_report" /\ other.research_results # EmptyDict
  THEN [f EXCEPT !.research_results = other.research_results]
  ELSE f

\* lines 63, 66, 69 and 184: a call that resumes after an await finds its
\* local variables as it left them, whatever the other call did meanwhile
Resume(f, other) == f

ConcurrentEntry == "two deep_research calls"

ConcurrentArgs == { <<2, 1>>, <<1, 2>>, <<2, 2>> }

ConcurrentOutlineTexts ==
  { <<"1", ".", " ", "Foo", "\n", "-", " ", "Bar">>, <<"-", " ", "Baz">> }

Calls == {1, 2}
Mine(who) == IF who = 1 THEN plugin ELSE peer
Theirs(who) == IF who = 1 THEN peer ELSE plugin
Put(who, f) ==
  IF who = 1 THEN plugin' = f /\ peer' = peer ELSE peer' = f /\ plugin' = plugin

InitConcurrent ==
  /\ entry = ConcurrentEntry
  /\ faults = 0
  /\ \E a \in ConcurrentArgs, b \in ConcurrentArgs :
       /\ plugin = deep_research(Str(<<"X">>), IntArg(a[1]), IntArg(a[2]))
       /\ peer = deep_research(Str(<<"Y">>), IntArg(b[1]), IntArg(b[2]))
  /\ risk = IdleRisk
  /\ agent = IdleAgent

\* lines 55-63 in either call
ConcurrentValidate ==
  /\ \E who \in Calls :
       /\ Mine(who).pc = "deep_research"
       /\ Put(who, ValidateStep(Resume(Mine(who), Theirs(who))))
  /\ UNCHANGED <<entry, risk, agent, faults>>

\* lines 63-66 and 113-171 in either call
ConcurrentOutline ==
  /\ \E who \in Calls :
       /\ Mine(who).pc = "_generate_research_outline"
       /\ \E response \in TextResponses(ConcurrentOutlineTexts) :
            /\ Admit(response)
            /\ Put(who, OutlineStep(Resume(Mine(who), Theirs(who)), response))
  /\ UNCHANGED <<entry, risk, agent>>

\* lines 184-185 and 212-240 in either call
ConcurrentAspect ==
  /\ \E who \in Calls :
       /\ Mine(who).pc = "_research_aspect"
       /\ \E response \in TextResponses(ResearchTexts) :
            /\ Admit(response)
            /\ Put(who, AspectStep(Resume(Mine(who), Theirs(who)), response))
  /\ UNCHANGED <<entry, risk, agent>>

\* lines 69-73 in either call
ConcurrentReport ==
  /\ \E who \in Calls :
       /\ Mine(who).pc = "_generate_final_report"
       /\ Put(who, ReportStep(Resume(Mine(who), Theirs(who))))
  /\ UNCHANGED <<entry, risk, agent, faults>>

NextConcurrent ==
  \/ ConcurrentValidate
  \/ ConcurrentOutline
  \/ ConcurrentAspect
  \/ ConcurrentReport

SpecConcurrent == InitConcurrent /\ [][NextConcurrent]_vars

\* lines 43-77: a call run alone from frame f with the responses given, as
\* far as the responses reach
RECURSIVE Run(_, _)
Run(f, responses) ==
  IF f.pc = "deep_research" THEN Run(ValidateStep(f), responses)
  ELSE IF f.pc = "_generate_final_report" THEN Run(ReportStep(f), responses)
  ELSE IF f.pc = "_generate_research_outline" /\ responses # <<>>
  THEN Run(OutlineStep(f, Head(responses)), Tail(responses))
  ELSE IF f.pc = "_research_aspect" /\ responses # <<>>
  THEN Run(AspectStep(f, Head(responses)), Tail(responses))
  ELSE f

\* ------------------------------------------------------------- properties
\* x is a str whose first piece is the literal marker
BeginsWith(x, marker) == IsStr(x) /\ x.v # <<>> /\ x.v[1] = marker

\* the call in the plugin frame has returned
PluginReturned == plugin.pc \in {"done", "returned"}

\* the finding blocks of a list of finding lines: one per header line
FindingBlocks(findings) ==
  Cardinality({ j \in 1..Len(findings) :
                  findings[j] # <<>> /\ findings[j][1] = "Research iteration " })

\* the placeholder blocks of a list of finding lines
ErrorBlocks(findings) ==
  Cardinality({ j \in 1..Len(findings) :
                  findings[j] # <<>> /\ findings[j][1] = ResearchErrorMarker })

\* n clamped to [lo, hi]
Nearest(lo, hi, n) == IF n < lo THEN lo ELSE IF n > hi THEN hi ELSE n

\* C1: when _perform_iterative_research returns inside deep_research, the
\* result mapping has exactly breadth entries, as many as the outline has
\* aspects, and every entry holds exactly depth finding blocks, whatever the
\* model answered to the outline request.
C1_ResultShape ==
  plugin.pc = "_generate_final_report" =>
    /\ Len(plugin.research_results.keys) = Len(plugin.research_outline)
    /\ Len(plugin.research_results.keys) = plugin.breadth.n
    /\ \A aspect \in Range(plugin.research_results.keys) :
         FindingBlocks(plugin.research_results.vals[aspect]) = plugin.depth.n

\* C2: for a breadth in [1,10], whatever the outcome of the outline request,
\* _generate_research_outline returns exactly breadth strings and does not
\* raise.
C2_OutlineLength ==
  (plugin.outline_requests = 1 /\ IsInt(plugin.breadth) /\ plugin.breadth.n \in 1..10) =>
    /\ plugin.ret.t # "raised"
    /\ Len(plugin.research_outline) = plugin.breadth.n

\* C2 witness: the response has more parsable lines than breadth and the
\* outline returned has breadth items.
C2_Witness ==
  /\ entry = "_generate_research_outline"
  /\ plugin.pc = "done"
  /\ IsStr(plugin.outline_content)
  /\ Len(ParseAspects(plugin.outline_content.v)) > plugin.breadth.n
  /\ Len(plugin.research_outline) = plugin.breadth.n

\* C3: for integer arguments deep_research rejects nothing: once the
\* parameters are validated the breadth in use is the argument clamped to
\* [1,10] and the depth in use is the argument clamped to [1,5]; the outline
\* has that many aspects and the report states both.
C3_Clamped ==
  (IsInt(plugin.breadth_arg) /\ IsInt(plugin.depth_arg)
     /\ plugin.pc \notin {"idle", "deep_research"}) =>
    LET b == Nearest(1, 10, plugin.breadth_arg.n)
        d == Nearest(1, 5, plugin.depth_arg.n)
    IN /\ plugin.breadth = IntArg(b)
       /\ plugin.depth = IntArg(d)
       /\ plugin.outline_requests = 1 => Len(plugin.research_outline) = b
       /\ PluginReturned =>
            /\ ~BeginsWith(plugin.ret, DeepResearchMarker)
            /\ Len(plugin.aspect_requests) = b * d
            /\ \E i \in 1..Len(plugin.ret.v) - 4 :
                 SubSeq(plugin.ret.v, i, i + 4) =
                   << "  \n**Research Scope:** ", ToString(b), " aspects explored with ",
                      ToString(d), " iterations each  \n**Total Research Points:** " >>

\* C3 witness: breadth 15 and depth 0 were asked for and the run ended with
\* breadth 10 and depth 1.
C3_Witness ==
  /\ plugin.pc = "done"
  /\ plugin.breadth_arg = IntArg(15) /\ plugin.depth_arg = IntArg(0)
  /\ plugin.breadth = IntArg(10) /\ plugin.depth = IntArg(1)
  /\ Len(plugin.research_outline) = 10

\* C4: a deep_research run with integer arguments that has returned issued
\* exactly one outline request and exactly one aspect request for each
\* (outline position, iteration) pair, whichever requests failed; it
\* returned a report; a failed outline request left the first breadth
\* generic aspects as the outline, and each failed aspect request left one
\* placeholder block (counted where no aspect repeats in the outline).
C4_RequestsOncePerPair ==
  (PluginReturned /\ IsInt(plugin.breadth_arg) /\ IsInt(plugin.depth_arg)) =>
    LET b == plugin.breadth.n
        d == plugin.depth.n
        outline == plugin.research_outline
        results == plugin.research_results
    IN /\ plugin.outline_requests = 1
       /\ Len(plugin.aspect_requests) = b * d
       /\ Range(plugin.aspect_requests) = (1..b) \X (1..d)
       /\ BeginsWith(plugin.ret, "# Deep Research Report: ")
       /\ ~IsStr(plugin.outline_content) =>
            /\ Len(outline) = b
            /\ \A i \in 1..b : outline[i] = generic_aspects(plugin.query)[i]
       /\ (entry \in {"deep_research", "quick_research"}
             /\ Cardinality(Range(outline)) = Len(outline)) =>
            LET total == [i \in 1..Len(outline) |-> ErrorBlocks(results.vals[outline[i]])]
                placeholders == Cardinality({ <<i, j>> \in (1..Len(outline)) \X (1..3 * d) :
                                               j <= total[i] })
            IN placeholders = faults - (IF IsStr(plugin.outline_content) THEN 0 ELSE 1)

\* C4 witness: the outline request and an aspect request failed and the run
\* still issued all its requests and returned a report.
C4_Witness ==
  /\ entry = "deep_research"
  /\ plugin.pc = "done"
  /\ faults = 2
  /\ ~IsStr(plugin.outline_content)
  /\ Len(plugin.aspect_requests) = 6
  /\ BeginsWith(plugin.ret, "# Deep Research Report: ")

\* ------------------------------------------------- properties of the entry points
\* the exception that leaves the inner operations of the deep_research call
\* in the plugin frame: a breadth or depth that cannot be compared, or a
\* float that clamping leaves a float (one strictly inside the range)
DeepResearchError ==
  LET b == plugin.breadth_arg
      d == plugin.depth_arg
  IN IF b \in NotANumber THEN Raise(CompareError(b))
     ELSE IF d \in NotANumber THEN Raise(CompareError(d))
     ELSE IF b.k = "float" /\ 2 < b.n /\ b.n < 20 THEN Raise(SliceError)
     ELSE IF d.k = "float" /\ 2 < d.n /\ d.n < 10 THEN Raise(RangeError)
     ELSE Ok(<<>>)

\* the arguments of a tool call make chat raise: they are no JSON text, or
\* they are no JSON object and the function is one the wrapper calls
BadCall(call) ==
  \/ ~json_loads(call.arguments).ok
  \/ call.name \in Dispatched /\ json_loads(call.arguments).val.kind # "dict"

CallError(call) ==
  IF ~json_loads(call.arguments).ok THEN json_loads(call.arguments).val ELSE NoGetError

\* the positions of the tool calls whose arguments make chat raise
BadCalls == { i \in 1..Len(agent.tool_calls) : BadCall(agent.tool_calls[i]) }

ChatDone == agent.pc = "done"
RequestedTools == agent.response.ok /\ agent.response.val.tool_calls # <<>>
FinalAnswered == Len(agent.requests) = 2 /\ agent.final_response.ok

\* C5 as stated: whenever a step inside deep_research or chat has raised (a
\* failed completion request, a breadth or depth that is no integer, bad
\* tool arguments), the entry point returned its failure marker.
C5_AnyRaiseYieldsMarker ==
  /\ (PluginReturned /\ entry \in {"deep_research", "quick_research"}
        /\ (faults > 0 \/ ~DeepResearchError.ok)) =>
       BeginsWith(plugin.ret, DeepResearchMarker)
  /\ (ChatDone /\ (faults > 0 \/ (RequestedTools /\ BadCalls # {}))) =>
       BeginsWith(agent.ret, ChatMarker)

\* C5 amended: deep_research and chat never raise to the caller, and exactly
\* when an exception leaves the inner operations they return the failure
\* marker followed by the exception's message: for deep_research a breadth
\* or depth that is no integer; for chat a failed request of its own or
\* tool arguments that are no JSON object.  Requests that fail inside
\* _generate_research_outline, _research_aspect, assess_risks or a called
\* deep_research are recovered there and do not produce the marker.
C5_EscapedExceptionYieldsMarker ==
  /\ entry # "_generate_research_outline" => plugin.ret.t # "raised"
  /\ agent.ret.t # "raised"
  /\ (PluginReturned /\ entry # "_generate_research_outline") =>
       IF DeepResearchError.ok
       THEN BeginsWith(plugin.ret, "# Deep Research Report: ")
       ELSE plugin.ret = Str(<<DeepResearchMarker>> \o DeepResearchError.val)
  /\ ChatDone =>
       IF ~agent.response.ok
       THEN agent.ret = Str(<<ChatMarker>> \o agent.response.val)
       ELSE IF RequestedTools /\ BadCalls # {}
       THEN agent.ret =
              Str(<<ChatMarker>> \o CallError(agent.tool_calls[SetMin(BadCalls)]))
       ELSE IF RequestedTools /\ ~agent.final_response.ok
       THEN agent.ret = Str(<<ChatMarker>> \o agent.final_response.val)
       ELSE ~BeginsWith(agent.ret, ChatMarker)

\* C5 witness: chat asked for deep_research with a breadth that is a str and
\* then for a function with malformed arguments; deep_research returned its
\* marker, and chat returned its own for the JSON error.
C5_Witness ==
  /\ ChatDone
  /\ entry = "DeepResearchAgent.chat"
  /\ plugin.pc = "returned"
  /\ plugin.ret = Str(<<DeepResearchMarker>> \o CompareError(StrArg))
  /\ Len(agent.tool_calls) = 2
  /\ ~json_loads(agent.tool_calls[2].arguments).ok
  /\ agent.ret = Str(<<ChatMarker>> \o JSONDecodeError)

\* C6: every public entry point that has returned has returned a str, never
\* None.
C6_ReturnsString ==
  /\ (PluginReturned /\ entry # "_generate_research_outline") => IsStr(plugin.ret)
  /\ risk.pc \in {"done", "returned"} => IsStr(risk.ret)
  /\ ChatDone => IsStr(agent.ret)

\* the ids of the calls of functions the wrapper calls, among the first n
KnownIds(n) ==
  LET at == SelectSeq([i \in 1..n |-> i],
                      LAMBDA i : agent.tool_calls[i].name \in Dispatched)
  IN [k \in 1..Len(at) |-> agent.tool_calls[at[k]].id]

\* every requested call has its tool message, in the order requested
ProcessedAll ==
  /\ Len(agent.messages) = 3 + Len(agent.tool_calls)
  /\ \A i \in 1..Len(agent.tool_calls) :
       /\ agent.messages[3 + i].role = "tool"
       /\ agent.messages[3 + i].tool_call_id = agent.tool_calls[i].id
  /\ agent.invoked = KnownIds(Len(agent.tool_calls))

\* the tool calls whose tool message has been appended
Processed == IF Len(agent.messages) > 3 THEN Len(agent.messages) - 3 ELSE 0

\* no function was called and no request of a plugin was issued
NothingInvoked ==
  /\ agent.invoked = <<>>
  /\ plugin = IdlePlugin
  /\ risk = IdleRisk

\* C7 as stated: a finished chat whose first response requested no function
\* returned its content after that one request; one whose first response
\* requested functions executed every one of them once and issued exactly
\* one more request, without the schema, whose content it returned.
C7_OneRoundAlways ==
  (ChatDone /\ agent.response.ok) =>
    /\ agent.requests[1].tools
    /\ ~RequestedTools =>
         /\ agent.ret = agent.response.val.content
         /\ Len(agent.requests) = 1
         /\ NothingInvoked
    /\ RequestedTools =>
         /\ ProcessedAll
         /\ Len(agent.requests) = 2
         /\ ~agent.requests[2].tools
         /\ agent.final_response.ok
         /\ agent.ret = agent.final_response.val.content

\* C7 amended: chat issues at most two requests, the first with the schema
\* and the second without, and calls no function twice.  If the first
\* response requests no function its content is returned and nothing else
\* happens.  If it requests functions, then unless an exception ends the
\* turn (tool arguments that are no JSON object, or the final request
\* failing) every requested call is processed once, in order, exactly one
\* more request is issued and its content is returned, also when that
\* response requests further calls; when the arguments of a call are bad
\* the calls after it are not executed and no final request is issued.
C7_OneRound ==
  /\ Len(agent.requests) <= 2
  /\ Len(agent.requests) >= 1 => agent.requests[1].tools
  /\ Len(agent.requests) = 2 =>
       /\ ~agent.requests[2].tools
       /\ RequestedTools /\ BadCalls = {} /\ ProcessedAll
  /\ agent.invoked = KnownIds(Processed + (IF agent.pc = "await_function" THEN 1 ELSE 0))
  /\ (ChatDone /\ agent.response.ok) =>
       /\ ~RequestedTools =>
            /\ agent.ret = agent.response.val.content
            /\ Len(agent.requests) = 1
            /\ NothingInvoked
       /\ (RequestedTools /\ BadCalls # {}) =>
            /\ Len(agent.requests) = 1
            /\ Len(agent.messages) = 3 + (SetMin(BadCalls) - 1)
            /\ agent.invoked = KnownIds(SetMin(BadCalls) - 1)
       /\ (RequestedTools /\ BadCalls = {}) =>
            /\ ProcessedAll
            /\ Len(agent.requests) = 2
            /\ agent.final_response.ok =>
                 agent.ret = agent.final_response.val.content

\* C7 witness: two functions were requested and executed, and the final
\* response, which asked for a further call, had its content returned with
\* no third request.
C7_Witness ==
  /\ ChatDone
  /\ RequestedTools
  /\ agent.invoked = <<1, 2>>
  /\ FinalAnswered
  /\ agent.final_response.val.tool_calls # <<>>
  /\ agent.ret = agent.final_response.val.content
  /\ ~agent.requests[2].tools

\* the tool message of the call at position i
ToolMessageOf(i) == agent.messages[3 + i]

\* the placeholder result for the call at position i
Placeholder(i) ==
  ChatMessage("tool", Str(<<"Unknown function: ", agent.tool_calls[i].name>>),
              agent.tool_calls[i].id, <<>>)

\* the requested calls that name a function the wrapper does not call and
\* that the loop has reached
UnknownReached ==
  { i \in 1..Len(agent.tool_calls) :
      agent.tool_calls[i].name \notin Dispatched /\ i <= agent.index }

\* C8 as stated: in a finished chat every reached tool call that names a
\* function the wrapper does not call has the placeholder as its tool
\* message, and the turn did not fail: all calls of the response were
\* processed, the final request was issued and its answer returned.
C8_UnknownNeverFails ==
  (ChatDone /\ RequestedTools /\ UnknownReached # {}) =>
    /\ ProcessedAll
    /\ \A i \in UnknownReached : ToolMessageOf(i) = Placeholder(i)
    /\ FinalAnswered
    /\ agent.ret = agent.final_response.val.content

\* C8 amended: a tool call that names a function the wrapper does not call
\* and whose arguments parse as JSON never ends the turn: its tool message
\* is the placeholder 'Unknown function: <name>' and the loop goes on to the
\* next call or to the final request.  A turn ends early only at a call
\* whose arguments are bad, the unknown function's own included; when no
\* call has bad arguments every call is processed and the final request is
\* issued, and its answer is returned unless that request fails.
C8_UnknownPlaceholder ==
  /\ \A i \in 1..Processed :
       agent.tool_calls[i].name \notin Dispatched =>
         /\ json_loads(agent.tool_calls[i].arguments).ok
         /\ ToolMessageOf(i) = Placeholder(i)
  /\ (ChatDone /\ RequestedTools /\ Len(agent.requests) = 1) =>
       /\ agent.index <= Len(agent.tool_calls)
       /\ BadCall(agent.tool_calls[agent.index])
       /\ agent.ret = Str(<<ChatMarker>> \o CallError(agent.tool_calls[agent.index]))
  /\ (ChatDone /\ RequestedTools /\ BadCalls = {}) =>
       /\ ProcessedAll
       /\ Len(agent.requests) = 2
       /\ agent.final_response.ok => agent.ret = agent.final_response.val.content

\* C8 witness: the first of two calls named an unknown function; the second
\* was still executed, the final request was issued and its answer returned.
C8_Witness ==
  /\ ChatDone
  /\ Len(agent.tool_calls) = 2
  /\ Processed = 2
  /\ agent.tool_calls[1].name \notin Dispatched
  /\ ToolMessageOf(1) = Placeholder(1)
  /\ agent.invoked = <<2>>
  /\ FinalAnswered
  /\ agent.ret = Str(<<"answer">>)

\* the position of the last call handed to a plugin, 0 when there is none
LastInvoked ==
  IF agent.invoked = <<>> THEN 0 ELSE agent.invoked[Len(agent.invoked)]

\* the call at position i names assess_risks with {"research_data": "D"}
AssessRisksCall(i) ==
  /\ agent.tool_calls[i].name = "assess_risks"
  /\ agent.tool_calls[i].arguments = "{\"research_data\": \"D\"}"

\* the loop has reached the call at position i and parsed its arguments
Reached(i) ==
  i <= Processed \/ (agent.pc = "await_function" /\ i = agent.index)

\* the call at position i was handed to the risk assessment flow with
\* research_data "D" and empty location and risk_categories, the str the
\* flow returned is the content of the call's tool message, and the final
\* request went out after it with that message in its list
HandedToRiskFlow(i) ==
  /\ i \in Range(agent.invoked)
  /\ i = LastInvoked =>
       /\ risk.pc \in {"assess_risks", "done", "returned"}
       /\ risk.research_data = Str(<<"D">>)
       /\ risk.location = Str(<<>>)
       /\ risk.risk_categories = Str(<<>>)
       /\ risk.pc \in {"assess_risks", "done"} =>
            /\ agent.pc = "await_function"
            /\ Processed = i - 1
       /\ risk.pc = "returned" =>
            /\ i <= Processed
            /\ IsStr(risk.ret)
            /\ ToolMessageOf(i) =
                 ChatMessage("tool", risk.ret, agent.tool_calls[i].id, <<>>)
  /\ i > Processed => Len(agent.requests) = 1
  /\ i <= Processed =>
       /\ ToolMessageOf(i).role = "tool"
       /\ IsStr(ToolMessageOf(i).content)
       /\ ToolMessageOf(i) # Placeholder(i)
  /\ Len(agent.requests) = 2 =>
       /\ i <= Processed
       /\ agent.requests[2].messages[3 + i] = ToolMessageOf(i)

\* C9 as stated, of either chat wrapper: a reached tool call to
\* assess_risks with the arguments {"research_data": "D"} is handed to the
\* risk assessment flow with research_data "D", location "" and
\* risk_categories "", and the str it returns is appended as the call's
\* tool message before the final request is issued.
C9_EveryWrapperDispatches ==
  \A i \in 1..Len(agent.tool_calls) :
    (AssessRisksCall(i) /\ Reached(i)) => HandedToRiskFlow(i)

\* C9 amended: in RiskAssessmentAgent.chat a reached tool call to
\* assess_risks with the arguments {"research_data": "D"} is handed to the
\* risk assessment flow with research_data "D", location "" and
\* risk_categories "", and the str it returns is appended as the call's
\* tool message before the final request is issued; in
\* DeepResearchAgent.chat the same call is answered with the placeholder
\* and the risk assessment flow is never started.
C9_AssessRisksDispatch ==
  \A i \in 1..Len(agent.tool_calls) :
    (AssessRisksCall(i) /\ Reached(i)) =>
      IF entry = "RiskAssessmentAgent.chat"
      THEN HandedToRiskFlow(i)
      ELSE /\ risk.pc = "idle"
           /\ i \notin Range(agent.invoked)
           /\ ToolMessageOf(i) = Placeholder(i)

\* C9 witness: the turn of a single such call is finished: the flow ran
\* with the three arguments and its result went out with the final request.
C9_Witness ==
  /\ entry = "RiskAssessmentAgent.chat"
  /\ ChatDone
  /\ Len(agent.tool_calls) = 1
  /\ agent.tool_calls[1].name = "assess_risks"
  /\ agent.tool_calls[1].arguments = "{\"research_data\": \"D\"}"
  /\ risk.pc = "returned"
  /\ risk.location = Str(<<>>) /\ risk.risk_categories = Str(<<>>)
  /\ Len(agent.requests) = 2
  /\ agent.requests[2].messages[4].content = risk.ret
  /\ risk.ret = Str(<<"assessment">>)

\* r is s without its leading and trailing whitespace
IsTrimmed(r, s) ==
  /\ r = <<>> \/ (r[1] \notin Whitespace /\ r[Len(r)] \notin Whitespace)
  /\ \E a \in 0..Len(s) :
       /\ a + Len(r) <= Len(s)
       /\ SubSeq(s, a + 1, a + Len(r)) = r
       /\ \A i \in (1..a) \cup ((a + Len(r) + 1)..Len(s)) : s[i] \in Whitespace

\* C10: an assess_risks call that has returned issued exactly one request
\* and returned a str: the response text trimmed when the request succeeded
\* with a text, and otherwise the error string that begins with the marker
\* and embeds the exception's message; before it returns it has issued no
\* request.
C10_AssessRisksOnce ==
  /\ risk.ret.t # "raised"
  /\ risk.pc = "assess_risks" => risk.requests = <<>>
  /\ risk.pc \in {"done", "returned"} =>
       /\ Len(risk.requests) = 1
       /\ IF risk.response.ok /\ IsStr(risk.response.val.content)
          THEN /\ IsStr(risk.ret)
               /\ IsTrimmed(risk.ret.v, risk.response.val.content.v)
          ELSE risk.ret =
                 Str(<<RiskErrorMarker>>
                     \o (IF risk.response.ok THEN NoStripError ELSE risk.response.val)
                     \o <<RiskHint>>)

\* C10 witness: the response text had whitespace around it and the call
\* returned it without.
C10_Witness ==
  /\ entry = "assess_risks"
  /\ risk.pc = "done"
  /\ risk.response.ok
  /\ risk.response.val.content = Str(<<"\n", "assessment", " ">>)
  /\ risk.ret = Str(<<"assessment">>)

\* ------------------------------------------------ properties of the report
\* the call in the plugin frame returned a report
ReportReturned ==
  PluginReturned /\ BeginsWith(plugin.ret, "# Deep Research Report: ")

\* the positions of the level-3 headings of a report
Headings(report) == { p \in 1..Len(report) : report[p] = "### " }

\* the i-th smallest member of a set of positions
Nth(S, i) == CHOOSE p \in S : Cardinality({ q \in S : q < p }) = i - 1

\* the position of the first piece of a report equal to a given piece
PositionOf(report, piece) ==
  SetMin({ p \in 1..Len(report) : report[p] = piece })

\* the section of a report for the aspect at position i of a mapping: the
\* heading, each finding line followed by a blank line, the horizontal rule
Section(results, i) ==
  LET findings == results.vals[results.keys[i]]
  IN <<"### ", ToString(i), ". ">> \o results.keys[i] \o <<"\n\n">>
     \o Concat([j \in 1..Len(findings) |-> findings[j] \o <<"\n\n">>])
     \o <<"---\n\n">>

\* C11: a report rendered from a mapping of N entries and a depth states
\* Total Research Points = N * depth in its metadata block, before the
\* detailed findings, and holds exactly N level-3 headings; the detailed
\* findings, from their title to the closing notes, are the N sections in
\* the order of the mapping, the i-th being the heading '### i. <aspect>'
\* of the i-th entry, that entry's finding lines in stored order and a
\* horizontal rule.
C11_ReportSections ==
  ReportReturned =>
    LET report == plugin.ret.v
        results == plugin.research_results
        N == Len(results.keys)
        total == PositionOf(report, " iterations each  \n**Total Research Points:** ")
        findings == PositionOf(report, "## Detailed Findings\n\n")
        notes == PositionOf(report, "## Sources and Methodology Notes\n\n")
    IN /\ Cardinality(Headings(report)) = N
       /\ report[total + 1] = ToString(N * plugin.depth.n)
       /\ total < findings /\ findings < notes
       /\ SubSeq(report, findings + 1, notes - 1)
            = Concat([i \in 1..N |-> Section(results, i)])

\* C11 witness: a report of breadth 2 and depth 1 over a two-entry mapping
\* states 2 research points and numbers its two headings 1 and 2.
C11_Witness ==
  /\ entry = "deep_research"
  /\ ReportReturned
  /\ plugin.breadth = IntArg(2) /\ plugin.depth = IntArg(1)
  /\ plugin.research_results.keys = << <<"Foo">>, <<"Bar">> >>
  /\ Cardinality(Headings(plugin.ret.v)) = 2
  /\ \E p \in 1..Len(plugin.ret.v) - 1 :
       /\ plugin.ret.v[p] = " iterations each  \n**Total Research Points:** "
       /\ plugin.ret.v[p + 1] = "2"

\* -------------------------------------------- properties of concurrent calls
\* the finding lines of a mapping all belong to the aspect they are stored
\* under and to one of the iterations 1..depth
OwnFindings(f) ==
  \A k \in Range(f.research_results.keys) :
    /\ k \in Range(f.research_outline)
    /\ \A j \in 1..Len(f.research_results.vals[k]) :
         LET line == f.research_results.vals[k][j]
         IN (line # <<>> /\ line[1] = "Research iteration ") =>
              \E n \in 1..f.depth.n : line = FindingHeader(k, n)

\* call f is where it would be had it run alone with the responses it got
AsAlone(f) ==
  Run(f, <<>>) = Run(deep_research(f.query, f.breadth_arg, f.depth_arg), f.responses)

\* C12: of two deep_research calls on one plugin that interleave at their
\* completion requests, each has at every moment the outline, the mapping
\* and, once returned, the report it has when run alone with the responses
\* it received, and its mapping holds only aspects of its own outline with
\* findings researched for them.
C12_IndependentCalls ==
  entry = ConcurrentEntry =>
    \A who \in Calls :
      /\ AsAlone(Mine(who))
      /\ OwnFindings(Mine(who))
      /\ Mine(who).pc = "done" => IsStr(Mine(who).ret)

\* C12 witness: both calls are suspended in the middle of their research
\* loops, each with one aspect request answered, over different outlines.
C12_Witness ==
  /\ entry = ConcurrentEntry
  /\ plugin.pc = "_research_aspect" /\ peer.pc = "_research_aspect"
  /\ Len(plugin.aspect_requests) = 1 /\ Len(peer.aspect_requests) = 1
  /\ plugin.research_outline = << <<"Foo">>, <<"Bar">> >>
  /\ peer.research_outline = << <<"Baz">>, <<"Recent developments and trends in ", "Y">> >>
  /\ plugin.research_results.keys = << <<"Foo">>, <<"Bar">> >>
  /\ peer.research_results.keys = << <<"Baz">>, <<"Recent developments and trends in ", "Y">> >>

\* ------------------------------------------- properties of the result mapping
\* sequence s is the beginning of sequence t
IsPrefix(s, t) == Len(s) <= Len(t) /\ SubSeq(t, 1, Len(s)) = s

\* mapping e holds every entry of mapping d, in the same place, with every
\* finding line d holds for it, in the same place
Grows(d, e) ==
  /\ IsPrefix(d.keys, e.keys)
  /\ \A k \in Range(d.keys) : IsPrefix(d.vals[k], e.vals[k])

\* C13: while _perform_iterative_research runs, no step removes an entry of
\* the result mapping or removes or overwrites a finding line an entry
\* already holds, for every outline, one that names an aspect at more than
\* one position included.
C13_MappingOnlyGrows ==
  [][plugin.pc = "_research_aspect" =>
       Grows(plugin.research_results, plugin'.research_results)]_vars

\* ------------------------------------------------- properties of the order
\* the header lines among the finding lines of an entry
HeaderLines(findings) ==
  SelectSeq(findings, LAMBDA line : line # <<>> /\ line[1] = "Research iteration ")

\* the aspects of an outline in outline order, each at its first position
FirstOccurrences(outline) ==
  LET first == { i \in 1..Len(outline) : \A j \in 1..(i - 1) : outline[j] # outline[i] }
  IN [n \in 1..Cardinality(first) |-> outline[Nth(first, n)]]

\* the call in the plugin frame is assembling or has returned its report
ReportStarted ==
  /\ entry # "_generate_research_outline"
  /\ plugin.pc \in {"_generate_final_report", "done", "returned"}
  /\ ~BeginsWith(plugin.ret, DeepResearchMarker)

OutlineReturned ==
  /\ plugin.outline_requests = 1
  /\ plugin.aspect_requests = <<>>
  /\ IsInt(plugin.breadth) /\ plugin.breadth.n \in 1..10

\* C15: when the outline request succeeds with a text from which k items
\* are parsed, k < breadth, the outline is the k items in parse order
\* followed by the generic aspects at positions k+1..breadth of the list of
\* ten; when the request raises (or its response has no text) the outline
\* is the generic aspects at positions 1..breadth.
C15_FallbackPadding ==
  OutlineReturned =>
    LET b == plugin.breadth.n
        generic == generic_aspects(plugin.query)
        outline == plugin.research_outline
    IN /\ Len(generic) = 10
       /\ IF IsStr(plugin.outline_content)
          THEN LET parsed == ParseAspects(plugin.outline_content.v)
                   k == Len(parsed)
               IN k < b =>
                    /\ Len(outline) = b
                    /\ \A i \in 1..k : outline[i] = parsed[i]
                    /\ \A i \in (k + 1)..b : outline[i] = generic[i]
          ELSE outline = [i \in 1..b |-> generic[i]]

\* C15 witness: two items were parsed for a breadth of 4 and the outline
\* ends with the third and fourth generic aspects.
C15_Witness ==
  /\ entry = "_generate_research_outline"
  /\ plugin.pc = "done"
  /\ plugin.breadth = IntArg(4)
  /\ IsStr(plugin.outline_content)
  /\ ParseAspects(plugin.outline_content.v) = << <<"Foo">>, <<"Bar">> >>
  /\ plugin.research_outline =
       << <<"Foo">>, <<"Bar">>,
          <<"Key challenges and opportunities in ", "X">>,
          <<"Future implications and predictions for ", "X">> >>

\* the lines of a response text, as the parser sees them
LinesOf(text) == Split(Strip(text), "\n")

\* what is left of a trimmed line when its prefix is stripped
Remainder(line) ==
  IF "." \in Range(line)
  THEN Strip(AfterFirst(line, "."))
  ELSE Strip(LStrip(line, {"-", Bullet}))

\* a response line is an item: trimmed it is not empty, it starts with a
\* digit, '-' or the bullet, and its remainder is not empty
Accepted(raw) ==
  LET line == Strip(raw)
  IN /\ line # <<>>
     /\ line[1] \in Digits \cup {"-", Bullet}
     /\ Remainder(line) # <<>>

NumericDot(line) ==
  \E p \in 2..Len(line) :
    line[p] = "." /\ \A q \in 1..(p - 1) : line[q] \in Digits

\* a trimmed line starts with '-' or the bullet
Bulleted(line) == line # <<>> /\ line[1] \in {"-", Bullet}

\* C17: the aspect of an accepted line is the line without the prefix that
\* applies to it: for a line that starts with a numeric-dot prefix the text
\* after the first '.', trimmed; for a line that starts with '-' or the
\* bullet the line without its leading run of '-' and bullets, trimmed,
\* whatever follows the run.
C17_PrefixStripping ==
  (OutlineReturned /\ IsStr(plugin.outline_content)) =>
    LET lines == LinesOf(plugin.outline_content.v)
        accepted == { i \in 1..Len(lines) : Accepted(lines[i]) }
        outline == plugin.research_outline
    IN \A n \in 1..Cardinality(accepted) :
         LET line == Strip(lines[Nth(accepted, n)])
         IN n <= plugin.breadth.n =>
              /\ NumericDot(line) => outline[n] = Strip(AfterFirst(line, "."))
              /\ Bulleted(line) => outline[n] = Strip(LStrip(line, {"-", Bullet}))

\* --------------------------------------- properties of the aspect researcher
\* C18: every _research_aspect call issues one completion request and
\* returns without raising: for a response with a text, exactly the header
\* 'Research iteration {n} for {aspect}:' and the text trimmed; for a
\* request that raised or a response without text, exactly the header, the
\* error marker followed by the exception's message, and the hint.
C18_TwoOrThreeStrings ==
  /\ plugin.ret.t # "raised"
  /\ Len(plugin.responses) = plugin.outline_requests + Len(plugin.aspect_requests)
  /\ plugin.aspect_requests = <<>> => plugin.findings = <<>>
  /\ plugin.aspect_requests # <<>> =>
       LET request == plugin.aspect_requests[Len(plugin.aspect_requests)]
           response == plugin.responses[Len(plugin.responses)]
           aspect == plugin.research_outline[request[1]]
           header == <<"Research iteration ", ToString(request[2]), " for ">>
                       \o aspect \o <<":">>
           findings == plugin.findings
       IN IF response.ok /\ IsStr(response.val.content)
          THEN /\ Len(findings) = 2
               /\ findings[1] = header
               /\ IsTrimmed(findings[2], response.val.content.v)
          ELSE /\ Len(findings) = 3
               /\ findings[1] = header
               /\ findings[2] = <<"[X] Error occurred during research: ">>
                                  \o (IF response.ok THEN NoStripError ELSE response.val)
               /\ findings[3] =
                    <<"Please check your Azure OpenAI configuration and try again.">>

\* C18 witness: the response to the second aspect request had no text and
\* the call returned the header, the error line and the hint.
C18_Witness ==
  /\ entry = "deep_research"
  /\ Len(plugin.aspect_requests) = 2
  /\ plugin.responses[3] = Ok(Message(None, <<>>))
  /\ Len(plugin.findings) = 3
  /\ plugin.findings[2] = <<"[X] Error occurred during research: ">> \o NoStripError

\* ------------------------------------------ properties of the message list
\* C19: when the first response of a chat carries n >= 1 tool calls and the
\* final request is issued, the messages sent with it are the system
\* message, the user message, the assistant message that carries the n
\* calls, and then one tool message per requested call, in the order of the
\* calls, the i-th under the id of the i-th call, and nothing else.
C19_FinalMessageList ==
  (RequestedTools /\ Len(agent.requests) = 2) =>
    LET sent == agent.requests[2].messages
        calls == agent.response.val.tool_calls
        n == Len(calls)
    IN /\ n >= 1
       /\ Len(sent) = 3 + n
       /\ sent[1].role = "system" /\ sent[1].content = Str(<<"system_message">>)
       /\ sent[2].role = "user" /\ sent[2].content = Str(<<"message">>)
       /\ sent[3].role = "assistant"
       /\ sent[3].content = agent.response.val.content
       /\ sent[3].tool_calls = calls
       /\ \A i \in 1..n :
            /\ sent[3 + i].role = "tool"
            /\ sent[3 + i].tool_call_id = calls[i].id
            /\ IsStr(sent[3 + i].content)
            /\ sent[3 + i].tool_calls = <<>>
       /\ \A i \in 1..2 : sent[i].tool_calls = <<>> /\ sent[i] = agent.requests[1].messages[i]

\* C19 witness: the first response carried two calls, a known and an
\* unknown function, and the final request went out with five messages,
\* the last two being tool messages under the ids of call 1 and call 2.
C19_Witness ==
  /\ RequestedTools
  /\ Len(agent.response.val.tool_calls) = 2
  /\ Len(agent.requests) = 2
  /\ Len(agent.requests[2].messages) = 5
  /\ agent.requests[2].messages[4].tool_call_id = agent.response.val.tool_calls[1].id
  /\ agent.requests[2].messages[5].tool_call_id = agent.response.val.tool_calls[2].id
  /\ agent.requests[2].messages[5].content.v # <<>>
  /\ agent.requests[2].messages[5].content.v[1] = "Unknown function: "
  /\ Len(agent.invoked) = 1

====
